---- MODULE Spec2Model ----
(***************************************************************************)
(* Orchestration core of homer: the conversational retrieval graph, the    *)
(* report graph, the index graph and the state reducers they rely on.      *)
(*                                                                         *)
(* Python values that a state field can hold are tagged records:           *)
(*   [t |-> "list", v |-> <<...>>]   a list                                *)
(*   [t |-> "str",  v |-> "..."]     a string                              *)
(*   [t |-> "none"]                  None / any other object               *)
(* so that a field written without a reducer can hold whatever a node      *)
(* returned for it.                                                        *)
(***************************************************************************)
EXTENDS Integers, Sequences, FiniteSets, TLC

(***************************************************************************)
(* Variables.  pipeline is the graph the caller runs; the state of the     *)
(* other graphs stays as constructed.                                      *)
(***************************************************************************)
VARIABLE pipeline
VARIABLES cp, pc, tid, st, trace, done, nextId, budget
VARIABLES variant, rpc, rs, iters
VARIABLES red_existing, red_new, red_out, red_done
VARIABLES b_documents, b_size, b_out, b_done
VARIABLES collection, dir, use_loader, ipc, ix_docs, seen, runs
VARIABLES config, failed_batch
VARIABLES del_store, del_docs, del_done
VARIABLES thread_deleted, delete_raised
VARIABLES stream_mode, events
VARIABLES state_shared
VARIABLES discussions, current_thread_id, checkpoints, now

chatVars == <<cp, pc, tid, st, trace, done, nextId, budget>>
reportVars == <<variant, rpc, rs, iters, state_shared>>
reduceVars == <<red_existing, red_new, red_out, red_done>>
batchVars == <<b_documents, b_size, b_out, b_done>>
indexVars == <<collection, dir, use_loader, ipc, ix_docs, seen, runs,
               config, failed_batch>>
deleteVars == <<del_store, del_docs, del_done>>
threadVars == <<thread_deleted, delete_raised>>
streamVars == <<stream_mode, events>>
discVars == <<discussions, current_thread_id, checkpoints, now>>

vars == <<pipeline, discVars, chatVars, reportVars, reduceVars, batchVars, indexVars, deleteVars,
          threadVars, streamVars>>

notChat == <<pipeline, discVars, reportVars, reduceVars, batchVars, indexVars, deleteVars, threadVars>>
notReport == <<pipeline, discVars, chatVars, reduceVars, batchVars, indexVars, deleteVars, threadVars,
              streamVars>>
notReduce == <<pipeline, discVars, chatVars, reportVars, batchVars, indexVars, deleteVars, threadVars,
              streamVars>>
notBatch == <<pipeline, discVars, chatVars, reportVars, reduceVars, indexVars, deleteVars, threadVars,
              streamVars>>
notIndex == <<pipeline, discVars, chatVars, reportVars, reduceVars, batchVars, deleteVars, threadVars,
              streamVars>>
notChat_threads == <<pipeline, discVars, reportVars, reduceVars, batchVars, indexVars, deleteVars,
                    streamVars>>
notDiscussions == <<pipeline, chatVars, reportVars, reduceVars, batchVars, indexVars,
                   deleteVars, threadVars, streamVars>>
notDelete == <<pipeline, discVars, chatVars, reportVars, reduceVars, batchVars, indexVars, threadVars,
              streamVars>>

(***************************************************************************)
(* Bounds of the model.                                                    *)
(***************************************************************************)
MaxTurns == 4
MaxParts == 2
MaxExisting == 2
MaxNewItems == 2
MaxChunks == 97
MaxBatchSize == 20
MaxBatches == 6
\* Node calls the executor allows one run of a graph.
MaxSupersteps == 25

\* Discussions created and prompts sent in one session of the chat page.
MaxCreations == 4
MaxPrompts == 2

MaxRuns == 2
MaxStored == 3
MaxLiveTurns == 3
MaxConcurrentTurns == 2
MaxThreadTurns == 2
MaxStreamTurns == 2
MaxSummaryTurns == 2

(***************************************************************************)
(* Program constants.                                                      *)
(***************************************************************************)
SummarizeEvery == 6
BatchSize == 20

\* Thread identifiers as the callers pass them, and the checkpoint rows they
\* address: the saver keys a row by str(thread_id), whether the caller passed
\* the identifier itself (stream) or its str (get_messages).
ThreadIds == {1, 2}

str(thread_id) == IF thread_id = 1 THEN "1" ELSE "2"

Threads == {str(thread_id) : thread_id \in ThreadIds}
Slots == {"r1", "r2"}
SeqSlots == {"r1"}

HumanTexts == {"What is X?", " "}
GeneratedQueries == {"X", "", " "}
Apology == "I apologize, but I encountered an error while generating a response. Please try rephrasing your question."
AnswerText == "answer"
SummaryTexts == {"summary A", "summary B"}

\* A Document: page_content and the "source" and "id" keys of its metadata
\* ("none" for a key the metadata does not have).
Doc(c, s) == [t |-> "doc", content |-> c, source |-> s, id |-> "none"]
RetrieverResults == {<<>>, <<Doc("c1", "a.pdf")>>, <<Doc("c1", "a.pdf"), Doc("c2", "b.pdf")>>}

PyList(s) == [t |-> "list", v |-> s]
PyStr(s) == [t |-> "str", v |-> s]
PyNone == [t |-> "none"]

\* Python truthiness of a tagged value.
Truthy(x) ==
    CASE x.t = "list" -> x.v # <<>>
      [] x.t = "str" -> x.v # ""
      [] OTHER -> FALSE

\* str.strip() on the texts of the model: a whitespace-only text strips to "".
Strip(s) == IF s = " " THEN "" ELSE s

Last(s) == s[Len(s)]

(***************************************************************************)
(* Messages and the add_messages reducer (merge by id, else append).       *)
(***************************************************************************)
HumanMessage(id, c) == [role |-> "human", id |-> id, content |-> c]
AIMessage(id, c) == [role |-> "ai", id |-> id, content |-> c]

RECURSIVE add_messages(_, _)
add_messages(left, right) ==
    IF right = <<>> THEN left
    ELSE LET m == Head(right)
             merged == IF \E i \in 1..Len(left) : left[i].id = m.id
                       THEN [i \in 1..Len(left) |-> IF left[i].id = m.id THEN m ELSE left[i]]
                       ELSE Append(left, m)
         IN add_messages(merged, Tail(right))

(***************************************************************************)
(* RetrievalState and the merge of a node's partial update into it.        *)
(* Only messages has a reducer; every other field is replaced.             *)
(***************************************************************************)
EmptyRetrievalState ==
    [messages |-> <<>>, query |-> "", retrieved_docs |-> PyList(<<>>), summary |-> ""]

ApplyRetrieval(state, upd) ==
    [messages |-> IF "messages" \in DOMAIN upd
                  THEN add_messages(state.messages, upd.messages)
                  ELSE state.messages,
     query |-> IF "query" \in DOMAIN upd THEN upd.query ELSE state.query,
     retrieved_docs |-> IF "retrieved_docs" \in DOMAIN upd
                        THEN upd.retrieved_docs ELSE state.retrieved_docs,
     summary |-> IF "summary" \in DOMAIN upd THEN upd.summary ELSE state.summary]

(***************************************************************************)
(* Nodes of the conversational retrieval graph.  ok is the outcome of the  *)
(* node's model or retriever call; the other parameters are what the call  *)
(* returned.                                                               *)
(***************************************************************************)
rephrase_query_fallback_general(state, ok, generated) ==
    LET clear == IF Truthy(state.retrieved_docs) THEN PyStr("delete") ELSE PyList(<<>>)
    IN IF ok
       THEN [query |-> generated, retrieved_docs |-> clear]
       ELSE [query |-> "general search", retrieved_docs |-> clear]

rephrase_query(state, ok, generated) ==
    LET clear == IF Truthy(state.retrieved_docs) THEN PyStr("delete") ELSE PyList(<<>>)
    IN IF ok
       THEN [query |-> generated, retrieved_docs |-> clear]
       ELSE [query |-> IF state.messages # <<>>
                       THEN Last(state.messages).content ELSE "general search",
             retrieved_docs |-> clear]

\* retrieve with the calls it makes: calls lists the model and retriever
\* calls of the node in order, update is what it returns.
retrieve_node_no_blank_check(state, ok, response) ==
    [calls |-> <<"load_embedding_model", "make_retriever", "retriever.invoke">>,
     update |-> IF ok THEN [retrieved_docs |-> PyList(response)]
                ELSE [retrieved_docs |-> PyList(<<>>)]]

retrieve_node(state, ok, response) ==
    IF state.query = "" \/ Strip(state.query) = ""
    THEN [calls |-> <<>>, update |-> [retrieved_docs |-> PyList(<<>>)]]
    ELSE [calls |-> <<"load_embedding_model", "make_retriever", "retriever.invoke">>,
          update |-> IF ok THEN [retrieved_docs |-> PyList(response)]
                     ELSE [retrieved_docs |-> PyList(<<>>)]]

retrieve(state, ok, response) == retrieve_node(state, ok, response).update

respond_failure_keeps_query(state, ok, id) ==
    IF ok
    THEN [messages |-> <<AIMessage(id, AnswerText)>>,
          retrieved_docs |-> PyList(<<>>), query |-> ""]
    ELSE [messages |-> <<AIMessage(id, Apology)>>,
          retrieved_docs |-> state.retrieved_docs, query |-> state.query]

respond_silent_on_failure(state, ok, id) ==
    IF ok
    THEN [messages |-> <<AIMessage(id, AnswerText)>>,
          retrieved_docs |-> PyList(<<>>), query |-> ""]
    ELSE [messages |-> <<>>, retrieved_docs |-> PyList(<<>>), query |-> ""]

respond_keeps_docs(state, ok, id) ==
    IF ok
    THEN [messages |-> <<AIMessage(id, AnswerText)>>, query |-> ""]
    ELSE [messages |-> <<AIMessage(id, Apology)>>, query |-> ""]

respond(state, ok, id) ==
    IF ok
    THEN [messages |-> <<AIMessage(id, AnswerText)>>,
          retrieved_docs |-> PyList(<<>>), query |-> ""]
    ELSE [messages |-> <<AIMessage(id, Apology)>>,
          retrieved_docs |-> PyList(<<>>), query |-> ""]

\* state.messages[-6:] taken for the whole conversation.
messages_to_summarize_all(state) == state.messages

\* state.messages[-6:], the messages summarize_conversation puts in its prompt.
messages_to_summarize(state) ==
    LET n == Len(state.messages)
    IN SubSeq(state.messages, IF n > SummarizeEvery THEN n - SummarizeEvery + 1 ELSE 1, n)

summarize_conversation_failure_clears(state, ok, content) ==
    IF ok THEN [summary |-> content]
    ELSE [summary |-> ""]

summarize_conversation(state, ok, content) ==
    IF ok THEN [summary |-> content]
    ELSE [summary |-> IF state.summary # "" THEN state.summary ELSE ""]

should_summarize_always(state) == "summarize_conversation"

should_summarize_at_least(state) ==
    IF Len(state.messages) >= SummarizeEvery THEN "summarize_conversation" ELSE "END"

should_summarize(state) ==
    IF Len(state.messages) % SummarizeEvery = 0 THEN "summarize_conversation" ELSE "END"

(***************************************************************************)
(* State of the conversational pipeline.                                   *)
(*   cp[t]     the checkpoint of thread t                                  *)
(*   pc[r]     where run r stands ("idle" before its first turn)           *)
(*   tid[r]    the thread run r works on                                   *)
(*   st[r]     the channel values of run r                                 *)
(*   trace[r]  the nodes run r has executed in its current turn            *)
(*   done[t]   turns completed on thread t                                 *)
(*   nextId    source of fresh message ids                                 *)
(*   budget    turns that may still be started                             *)
(***************************************************************************)
InitChatTurns(turns) ==
    /\ cp = [t \in Threads |-> EmptyRetrievalState]
    /\ pc = [r \in Slots |-> "idle"]
    /\ tid = [r \in Slots |-> "1"]
    /\ st = [r \in Slots |-> EmptyRetrievalState]
    /\ trace = [r \in Slots |-> <<>>]
    /\ done = [t \in Threads |-> 0]
    /\ nextId = 1
    /\ budget = turns

InitChat == InitChatTurns(MaxTurns)

(***************************************************************************)
(* What a run puts on its stream.  With stream_mode "messages" the executor *)
(* reports every chunk a model call of a node produces, tagged with the    *)
(* node ("chunk"), and moves to the next node when the node has returned   *)
(* ("end"); with stream_mode "values" nothing is reported.                 *)
(*   stream_mode  how the graph is run                                     *)
(*   events[r]    the events of the current turn of run r, in order        *)
(***************************************************************************)
ChunkEvent(node, content) == [kind |-> "chunk", node |-> node, content |-> content]
EndEvent(node) == [kind |-> "end", node |-> node, content |-> ""]

\* The response model streams its answer in two deltas; a call that fails
\* may have streamed the first one.  Whether the executor also reports the
\* fallback message a node returns, which no model call produced, depends on
\* the version of the graph library: both outcomes are kept.
AnswerDeltas == <<"ans", "wer">>

ChunkEvents(node, contents) == [i \in 1..Len(contents) |-> ChunkEvent(node, contents[i])]

Emit(r, node, contents) ==
    /\ events' = [events EXCEPT ![r] =
                    IF stream_mode = "messages"
                    THEN @ \o ChunkEvents(node, contents) \o <<EndEvent(node)>>
                    ELSE @]
    /\ UNCHANGED stream_mode

IdleStream ==
    /\ stream_mode = "values"
    /\ events = [r \in Slots |-> <<>>]

\* RetrievalAgent.stream yielding every chunk with content, whatever its node.
Delivered_any_node(evs) ==
    {i \in 1..Len(evs) : evs[i].kind = "chunk" /\ evs[i].content # ""}

\* RetrievalAgent.stream: the positions of the events whose content the
\* generator yields to its caller.
Delivered(evs) ==
    {i \in 1..Len(evs) :
        evs[i].kind = "chunk" /\ evs[i].content # "" /\ evs[i].node = "respond"}

\* A save that merges the node's update into whatever the thread's row holds.
Step_merge_into_checkpoint(r, node, upd, next) ==
    LET merged == ApplyRetrieval(st[r], upd)
    IN /\ st' = [st EXCEPT ![r] = merged]
       /\ cp' = [cp EXCEPT ![tid[r]] = ApplyRetrieval(@, upd)]
       /\ trace' = [trace EXCEPT ![r] = Append(@, node)]
       /\ pc' = [pc EXCEPT ![r] = next]
       /\ done' = IF next = "END" THEN [done EXCEPT ![tid[r]] = @ + 1] ELSE done

\* A save that ignores the thread id.
Step_single_checkpoint(r, node, upd, next) ==
    LET merged == ApplyRetrieval(st[r], upd)
    IN /\ st' = [st EXCEPT ![r] = merged]
       /\ cp' = [t \in Threads |-> merged]
       /\ trace' = [trace EXCEPT ![r] = Append(@, node)]
       /\ pc' = [pc EXCEPT ![r] = next]
       /\ done' = IF next = "END" THEN [done EXCEPT ![tid[r]] = @ + 1] ELSE done

\* One node of run r has returned upd: merge it, checkpoint it, move on.
Step(r, node, upd, next) ==
    LET merged == ApplyRetrieval(st[r], upd)
    IN /\ st' = [st EXCEPT ![r] = merged]
       /\ cp' = [cp EXCEPT ![tid[r]] = merged]
       /\ trace' = [trace EXCEPT ![r] = Append(@, node)]
       /\ pc' = [pc EXCEPT ![r] = next]
       /\ done' = IF next = "END" THEN [done EXCEPT ![tid[r]] = @ + 1] ELSE done

\* RetrievalAgent.get_messages: the messages of the thread's latest checkpoint.
get_messages(thread_id) == cp[str(thread_id)].messages

\* A turn that starts from an empty state instead of the thread's checkpoint.
StartTurn_fresh_state(r, thread_id, text) ==
    /\ pipeline = "chat"
    /\ pc[r] \in {"idle", "END"}
    /\ budget > 0
    /\ LET t == str(thread_id)
           loaded == ApplyRetrieval(EmptyRetrievalState,
                                    [messages |-> <<HumanMessage(nextId, text)>>])
       IN /\ st' = [st EXCEPT ![r] = loaded]
          /\ cp' = [cp EXCEPT ![t] = loaded]
          /\ tid' = [tid EXCEPT ![r] = t]
    /\ pc' = [pc EXCEPT ![r] = "rephrase_query"]
    /\ trace' = [trace EXCEPT ![r] = <<>>]
    /\ nextId' = nextId + 1
    /\ budget' = budget - 1
    /\ events' = [events EXCEPT ![r] = <<>>]
    /\ UNCHANGED <<done, stream_mode>>
    /\ UNCHANGED notChat

\* RetrievalAgent.stream: load the thread's checkpoint, merge the human input.
StartTurn(r, thread_id, text) ==
    /\ pipeline = "chat"
    /\ pc[r] \in {"idle", "END"}
    /\ budget > 0
    /\ LET t == str(thread_id)
           loaded == ApplyRetrieval(cp[t], [messages |-> <<HumanMessage(nextId, text)>>])
       IN /\ st' = [st EXCEPT ![r] = loaded]
          /\ cp' = [cp EXCEPT ![t] = loaded]
          /\ tid' = [tid EXCEPT ![r] = t]
    /\ pc' = [pc EXCEPT ![r] = "rephrase_query"]
    /\ trace' = [trace EXCEPT ![r] = <<>>]
    /\ nextId' = nextId + 1
    /\ budget' = budget - 1
    /\ events' = [events EXCEPT ![r] = <<>>]
    /\ UNCHANGED <<done, stream_mode>>
    /\ UNCHANGED notChat

RephraseQuery(r) ==
    /\ pipeline = "chat"
    /\ pc[r] = "rephrase_query"
    /\ \E ok \in BOOLEAN, generated \in GeneratedQueries :
          /\ Step(r, "rephrase_query", rephrase_query(st[r], ok, generated), "retrieve")
          /\ Emit(r, "rephrase_query", IF ok THEN <<generated>> ELSE <<>>)
    /\ UNCHANGED <<tid, nextId, budget>>
    /\ UNCHANGED notChat

Retrieve(r) ==
    /\ pipeline = "chat"
    /\ pc[r] = "retrieve"
    /\ \E ok \in BOOLEAN, response \in RetrieverResults :
          Step(r, "retrieve", retrieve(st[r], ok, response), "respond")
    /\ Emit(r, "retrieve", <<>>)
    /\ UNCHANGED <<tid, nextId, budget>>
    /\ UNCHANGED notChat

Respond(r) ==
    /\ pipeline = "chat"
    /\ pc[r] = "respond"
    /\ \E ok \in BOOLEAN :
          LET upd == respond(st[r], ok, nextId)
          IN /\ Step(r, "respond", upd, should_summarize(ApplyRetrieval(st[r], upd)))
             /\ \E streamed \in (IF ok THEN {Len(AnswerDeltas)} ELSE {0, 1}),
                   fallback_streamed \in (IF ok THEN {FALSE} ELSE BOOLEAN) :
                   Emit(r, "respond",
                        SubSeq(AnswerDeltas, 1, streamed)
                           \o (IF fallback_streamed THEN <<Apology>> ELSE <<>>))
    /\ nextId' = nextId + 1
    /\ UNCHANGED <<tid, budget>>
    /\ UNCHANGED notChat

SummarizeConversation(r) ==
    /\ pipeline = "chat"
    /\ pc[r] = "summarize_conversation"
    /\ \E ok \in BOOLEAN, content \in SummaryTexts :
          /\ Step(r, "summarize_conversation", summarize_conversation(st[r], ok, content), "END")
          /\ Emit(r, "summarize_conversation", IF ok THEN <<content>> ELSE <<>>)
    /\ UNCHANGED <<tid, nextId, budget>>
    /\ UNCHANGED notChat

NextChat ==
    \E r \in SeqSlots :
        \/ \E thread_id \in ThreadIds, text \in HumanTexts : StartTurn(r, thread_id, text)
        \/ RephraseQuery(r)
        \/ Retrieve(r)
        \/ Respond(r)
        \/ SummarizeConversation(r)

\* Two stream() generators of one agent advanced in any interleaving, every
\* turn asking the same question.
NextChatConcurrent ==
    \E r \in Slots :
        \/ \E thread_id \in ThreadIds : StartTurn(r, thread_id, "What is X?")
        \/ RephraseQuery(r)
        \/ Retrieve(r)
        \/ Respond(r)
        \/ SummarizeConversation(r)

(***************************************************************************)
(* ReportState, its add_sections reducer and the merge of a node's update. *)
(* Only report has a reducer (messages is the seed request and is never    *)
(* written by a node); every other field is replaced.                      *)
(* raw_section_content is the field synthesize_section returns and         *)
(* review_section reads (graphs/report_graph.py:430, 501).  The ReportState *)
(* of states.py declares neither it nor number_of_parts and writing_style, *)
(* which generate_outline and synthesize_section read inside their try     *)
(* blocks: on that class the reads raise and the node takes its except     *)
(* branch, which is the ok = FALSE case of the node; ok = TRUE is the node *)
(* on a state that carries the fields it is written for.                   *)
(***************************************************************************)
\* A reducer that lets the update replace the sections.
add_sections_replace(existing, new) ==
    CASE new.t = "dict" -> <<new.v>>
      [] new.t = "list" -> new.v
      [] OTHER -> existing

add_sections(existing, new) ==
    CASE new.t = "dict" -> Append(existing, new.v)
      [] new.t = "list" -> existing \o new.v
      [] OTHER -> existing

PyDict(d) == [t |-> "dict", v |-> d]

EmptyReportState ==
    [query |-> "", outlines |-> <<>>, report |-> <<>>, retrieved_docs |-> <<>>,
     current_section_index |-> 0, raw_section_content |-> ""]

ApplyReport(state, upd) ==
    [query |-> IF "query" \in DOMAIN upd THEN upd.query ELSE state.query,
     outlines |-> IF "outlines" \in DOMAIN upd THEN upd.outlines ELSE state.outlines,
     report |-> IF "report" \in DOMAIN upd
                THEN add_sections(state.report, upd.report) ELSE state.report,
     retrieved_docs |-> IF "retrieved_docs" \in DOMAIN upd
                        THEN upd.retrieved_docs ELSE state.retrieved_docs,
     current_section_index |-> IF "current_section_index" \in DOMAIN upd
                               THEN upd.current_section_index
                               ELSE state.current_section_index,
     raw_section_content |-> IF "raw_section_content" \in DOMAIN upd
                             THEN upd.raw_section_content
                             ELSE state.raw_section_content]

\* A node that returns {} updates nothing.
NoUpdate == [nothing |-> TRUE]

Titles == {"A", "B"}

RECURSIVE SeqsUpTo(_, _)
SeqsUpTo(S, n) ==
    IF n = 0 THEN {<<>>}
    ELSE LET shorter == SeqsUpTo(S, n - 1)
         IN shorter \cup {Append(q, x) : q \in shorter, x \in S}

\* What the structured-output model can return as Outline.entries.
OutlineResults == SeqsUpTo(Titles, MaxParts)

(***************************************************************************)
(* Nodes of the report graph (core/graphs/report_graph.py).  An outline    *)
(* entry is its title.                                                     *)
(***************************************************************************)
initial_retrieval(state, ok, response) ==
    IF ok THEN [retrieved_docs |-> response] ELSE [retrieved_docs |-> <<>>]

generate_outline(state, ok, entries) ==
    IF ok
    THEN [outlines |-> entries, current_section_index |-> 0]
    ELSE [outlines |-> <<"Report Section">>, current_section_index |-> 0]

retrieve_for_section(state, ok, response) ==
    IF state.outlines = <<>> THEN [retrieved_docs |-> <<>>]
    ELSE IF state.current_section_index >= Len(state.outlines)
    THEN [retrieved_docs |-> <<>>]
    ELSE IF ok THEN [retrieved_docs |-> response]
    ELSE [retrieved_docs |-> <<>>]

synthesize_section(state, ok) ==
    IF state.outlines = <<>> THEN [raw_section_content |-> ""]
    ELSE IF state.current_section_index >= Len(state.outlines)
    THEN [raw_section_content |-> ""]
    ELSE IF ok THEN [raw_section_content |-> "draft"]
    ELSE [raw_section_content |-> "Error synthesizing section"]

\* review_section whose failure path moves past the next entry as well.
review_section_error_skips_entry(state, ok) ==
    IF state.outlines = <<>> THEN NoUpdate
    ELSE IF state.current_section_index >= Len(state.outlines) THEN NoUpdate
    ELSE LET current_section == state.outlines[state.current_section_index + 1]
         IN IF ok
            THEN [report |-> PyList(<<[title |-> current_section, content |-> "polished"]>>),
                  current_section_index |-> state.current_section_index + 1]
            ELSE [report |-> PyList(<<[title |-> current_section,
                                       content |-> "Error reviewing section"]>>),
                  current_section_index |-> state.current_section_index + 2]

\* review_section whose failure path titles the section "Error".
review_section_error_title(state, ok) ==
    IF state.outlines = <<>> THEN NoUpdate
    ELSE IF state.current_section_index >= Len(state.outlines) THEN NoUpdate
    ELSE LET current_section == state.outlines[state.current_section_index + 1]
         IN IF ok
            THEN [report |-> PyList(<<[title |-> current_section, content |-> "polished"]>>),
                  current_section_index |-> state.current_section_index + 1]
            ELSE [report |-> PyList(<<[title |-> "Error",
                                       content |-> "Error reviewing section"]>>),
                  current_section_index |-> state.current_section_index + 1]

review_section_noguard(state, ok) ==
    IF state.outlines = <<>> \/ state.current_section_index >= Len(state.outlines)
    THEN [report |-> PyList(<<[title |-> "Error", content |-> "Error reviewing section"]>>),
          current_section_index |-> state.current_section_index + 1]
    ELSE LET current_section == state.outlines[state.current_section_index + 1]
         IN [report |-> PyList(<<[title |-> current_section,
                                  content |-> IF ok THEN "polished"
                                              ELSE "Error reviewing section"]>>),
             current_section_index |-> state.current_section_index + 1]

review_section_error_drops_section(state, ok) ==
    IF state.outlines = <<>> THEN NoUpdate
    ELSE IF state.current_section_index >= Len(state.outlines) THEN NoUpdate
    ELSE LET current_section == state.outlines[state.current_section_index + 1]
         IN IF ok
            THEN [report |-> PyList(<<[title |-> current_section, content |-> "polished"]>>),
                  current_section_index |-> state.current_section_index + 1]
            ELSE [current_section_index |-> state.current_section_index + 1]

review_section_fail_no_advance(state, ok) ==
    IF state.outlines = <<>> THEN NoUpdate
    ELSE IF state.current_section_index >= Len(state.outlines) THEN NoUpdate
    ELSE LET current_section == state.outlines[state.current_section_index + 1]
         IN IF ok
            THEN [report |-> PyList(<<[title |-> current_section, content |-> "polished"]>>),
                  current_section_index |-> state.current_section_index + 1]
            ELSE [report |-> PyList(<<[title |-> current_section,
                                       content |-> "Error reviewing section"]>>)]

\* Every failure of review_section comes after current_section is bound, so
\* the error section carries the section's own title.
review_section(state, ok) ==
    IF state.outlines = <<>> THEN NoUpdate
    ELSE IF state.current_section_index >= Len(state.outlines) THEN NoUpdate
    ELSE LET current_section == state.outlines[state.current_section_index + 1]
         IN IF ok
            THEN [report |-> PyList(<<[title |-> current_section, content |-> "polished"]>>),
                  current_section_index |-> state.current_section_index + 1]
            ELSE [report |-> PyList(<<[title |-> current_section,
                                       content |-> "Error reviewing section"]>>),
                  current_section_index |-> state.current_section_index + 1]

should_continue_early(state) ==
    IF state.outlines = <<>> THEN "END"
    ELSE IF state.current_section_index + 1 >= Len(state.outlines) THEN "END"
    ELSE "retrieve_for_section"

should_continue(state) ==
    IF state.outlines = <<>> THEN "END"
    ELSE IF state.current_section_index >= Len(state.outlines) THEN "END"
    ELSE "retrieve_for_section"

(***************************************************************************)
(* Nodes of the earlier report graph (core/report_graph.py).  An outline   *)
(* entry is a {title, summary} record; one node generates and stores a     *)
(* section.                                                                *)
(***************************************************************************)
Entry(title) == [title |-> title, summary |-> "about " \o title]

core_generate_outline(state, ok, entries) ==
    IF ok
    THEN [outlines |-> [i \in 1..Len(entries) |-> Entry(entries[i])],
          current_section_index |-> 0]
    ELSE [outlines |-> <<[title |-> "Report Section", summary |-> "Unable to generate outline"]>>,
          current_section_index |-> 0]

core_retrieve(state, ok, response) ==
    IF ok THEN [retrieved_docs |-> response] ELSE [retrieved_docs |-> <<>>]

generate_section_error_no_section(state, ok) ==
    IF state.outlines = <<>> \/ state.current_section_index >= Len(state.outlines)
    THEN NoUpdate
    ELSE LET current_section == state.outlines[state.current_section_index + 1]
         IN IF ok
            THEN [report |-> PyList(<<[title |-> current_section.title,
                                       summary |-> current_section.summary,
                                       content |-> "section text"]>>),
                  current_section_index |-> state.current_section_index + 1]
            ELSE [current_section_index |-> state.current_section_index + 1]

generate_section(state, ok) ==
    IF state.outlines = <<>> \/ state.current_section_index >= Len(state.outlines)
    THEN NoUpdate
    ELSE LET current_section == state.outlines[state.current_section_index + 1]
         IN IF ok
            THEN [report |-> PyList(<<[title |-> current_section.title,
                                       summary |-> current_section.summary,
                                       content |-> "section text"]>>),
                  current_section_index |-> state.current_section_index + 1]
            ELSE [report |-> PyDict([title |-> "Error", summary |-> "",
                                     content |-> "Error generating section"]),
                  current_section_index |-> state.current_section_index + 1]

core_should_continue(state) ==
    IF state.outlines = <<>> \/ state.current_section_index >= Len(state.outlines)
    THEN "END" ELSE "retrieve"

(***************************************************************************)
(* Nodes of the report graph of core/agents/report_graph.py.  No node has  *)
(* a try block: a failing call raises out of the run.  generate_section    *)
(* takes its entry with state.outlines.pop(0) and returns only the report  *)
(* update; popped is the list the node's state object holds afterwards.    *)
(***************************************************************************)
improve_query(state, ok) ==
    [raised |-> ~ok, update |-> [query |-> "improved query"]]

\* The text the retriever is invoked with.
agents_retrieve_input(state) ==
    IF state.outlines = <<>> THEN state.query
    ELSE LET current_section == state.outlines[1]
         IN current_section.title \o "\n" \o current_section.summary

agents_retrieve(state, ok, response) ==
    [raised |-> ~ok, input |-> agents_retrieve_input(state),
     update |-> [retrieved_docs |-> response]]

agents_generate_outline(state, ok, entries) ==
    [raised |-> ~ok,
     update |-> [outlines |-> [i \in 1..Len(entries) |-> Entry(entries[i])]]]

\* pop(0) on an empty list raises IndexError; the model is called after the pop.
agents_generate_section(state, ok) ==
    IF state.outlines = <<>>
    THEN [raised |-> TRUE, popped |-> <<>>, update |-> NoUpdate]
    ELSE LET current_section == Head(state.outlines)
         IN [raised |-> ~ok,
             popped |-> Tail(state.outlines),
             update |-> [report |-> PyList(<<[title |-> current_section.title,
                                              summary |-> current_section.summary,
                                              content |-> "section text"]>>)]]

agents_should_continue(state) ==
    IF Len(state.outlines) = 0 THEN "END" ELSE "retrieve"

(***************************************************************************)

(* State of a report run.                                                  *)
(*   variant  which report graph was built ("graphs" or "core")            *)
(*   rpc      the node about to run                                        *)
(*   rs       the ReportState channels                                     *)
(*   iters    how many times each node of the section loop has run         *)
(*   state_shared  whether the executor hands a node the list objects its  *)
(*            channels hold, so that a change a node makes in place is     *)
(*            seen by the nodes after it, or a copy of them                *)
(***************************************************************************)
InitReport ==
    /\ variant \in {"graphs", "core"}
    /\ rpc = "initial_retrieval"
    /\ rs = EmptyReportState
    /\ iters = [retrieve |-> 0, synthesize |-> 0, review |-> 0]
    /\ state_shared = FALSE

RStep(upd, next) ==
    /\ rs' = ApplyReport(rs, upd)
    /\ rpc' = next

InitialRetrieval ==
    /\ pipeline = "report"
    /\ variant \in {"graphs", "core"}
    /\ rpc = "initial_retrieval"
    /\ \E ok \in BOOLEAN, response \in RetrieverResults :
          IF variant = "graphs"
          THEN RStep(initial_retrieval(rs, ok, response), "generate_outline")
          ELSE RStep(core_retrieve(rs, ok, response), "generate_outline")
    /\ UNCHANGED <<variant, iters, state_shared>>
    /\ UNCHANGED notReport

GenerateOutline ==
    /\ pipeline = "report"
    /\ variant \in {"graphs", "core"}
    /\ rpc = "generate_outline"
    /\ \E ok \in BOOLEAN, entries \in OutlineResults :
          IF variant = "graphs"
          THEN RStep(generate_outline(rs, ok, entries), "retrieve_for_section")
          ELSE RStep(core_generate_outline(rs, ok, entries), "retrieve")
    /\ UNCHANGED <<variant, iters, state_shared>>
    /\ UNCHANGED notReport

RetrieveForSection ==
    /\ pipeline = "report"
    /\ rpc = "retrieve_for_section"
    /\ \E ok \in BOOLEAN, response \in RetrieverResults :
          RStep(retrieve_for_section(rs, ok, response), "synthesize_section")
    /\ iters' = [iters EXCEPT !.retrieve = @ + 1]
    /\ UNCHANGED <<variant, state_shared>>
    /\ UNCHANGED notReport

SynthesizeSection ==
    /\ pipeline = "report"
    /\ rpc = "synthesize_section"
    /\ \E ok \in BOOLEAN : RStep(synthesize_section(rs, ok), "review_section")
    /\ iters' = [iters EXCEPT !.synthesize = @ + 1]
    /\ UNCHANGED <<variant, state_shared>>
    /\ UNCHANGED notReport

ReviewSection ==
    /\ pipeline = "report"
    /\ rpc = "review_section"
    /\ \E ok \in BOOLEAN :
          LET upd == review_section(rs, ok)
          IN RStep(upd, should_continue(ApplyReport(rs, upd)))
    /\ iters' = [iters EXCEPT !.review = @ + 1]
    /\ UNCHANGED <<variant, state_shared>>
    /\ UNCHANGED notReport

CoreRetrieve ==
    /\ pipeline = "report"
    /\ variant \in {"graphs", "core"}
    /\ rpc = "retrieve"
    /\ \E ok \in BOOLEAN, response \in RetrieverResults :
          RStep(core_retrieve(rs, ok, response), "generate_section")
    /\ iters' = [iters EXCEPT !.retrieve = @ + 1]
    /\ UNCHANGED <<variant, state_shared>>
    /\ UNCHANGED notReport

GenerateSection ==
    /\ pipeline = "report"
    /\ variant \in {"graphs", "core"}
    /\ rpc = "generate_section"
    /\ \E ok \in BOOLEAN :
          LET upd == generate_section(rs, ok)
          IN RStep(upd, core_should_continue(ApplyReport(rs, upd)))
    /\ iters' = [iters EXCEPT !.synthesize = @ + 1, !.review = @ + 1]
    /\ UNCHANGED <<variant, state_shared>>
    /\ UNCHANGED notReport

\* The run of the graph of core/agents/report_graph.py.  Supersteps counts the
\* node calls made so far; the executor raises when the run has made
\* MaxSupersteps of them without reaching END.
InitReportAgents ==
    /\ variant = "agents"
    /\ rpc = "improve_query"
    /\ rs = EmptyReportState
    /\ iters = [retrieve |-> 0, synthesize |-> 0, review |-> 0]
    /\ state_shared \in BOOLEAN

Supersteps ==
    CASE rpc = "improve_query" -> 0
      [] rpc = "initial_retrieval" -> 1
      [] rpc = "generate_outline" -> 2
      [] OTHER -> 3 + iters.retrieve + iters.review

AStep(res, next) ==
    IF res.raised
    THEN /\ rpc' = "raised"
         /\ rs' = rs
    ELSE RStep(res.update, next)

AgentsImproveQuery ==
    /\ pipeline = "report"
    /\ variant = "agents"
    /\ rpc = "improve_query"
    /\ \E ok \in BOOLEAN : AStep(improve_query(rs, ok), "initial_retrieval")
    /\ UNCHANGED <<variant, iters, state_shared>>
    /\ UNCHANGED notReport

AgentsInitialRetrieval ==
    /\ pipeline = "report"
    /\ variant = "agents"
    /\ rpc = "initial_retrieval"
    /\ \E ok \in BOOLEAN, response \in RetrieverResults :
          AStep(agents_retrieve(rs, ok, response), "generate_outline")
    /\ UNCHANGED <<variant, iters, state_shared>>
    /\ UNCHANGED notReport

AgentsGenerateOutline ==
    /\ pipeline = "report"
    /\ variant = "agents"
    /\ rpc = "generate_outline"
    /\ \E ok \in BOOLEAN, entries \in OutlineResults :
          AStep(agents_generate_outline(rs, ok, entries), "retrieve")
    /\ UNCHANGED <<variant, iters, state_shared>>
    /\ UNCHANGED notReport

AgentsRetrieve ==
    /\ pipeline = "report"
    /\ variant = "agents"
    /\ rpc = "retrieve"
    /\ Supersteps < MaxSupersteps
    /\ \E ok \in BOOLEAN, response \in RetrieverResults :
          AStep(agents_retrieve(rs, ok, response), "generate_section")
    /\ iters' = [iters EXCEPT !.retrieve = @ + 1]
    /\ UNCHANGED <<variant, state_shared>>
    /\ UNCHANGED notReport

\* The pop reaches the outlines channel when the node was handed the list the
\* channel holds, whether the node then returns or raises.
AgentsGenerateSection ==
    /\ pipeline = "report"
    /\ variant = "agents"
    /\ rpc = "generate_section"
    /\ Supersteps < MaxSupersteps
    /\ \E ok \in BOOLEAN :
          LET res == agents_generate_section(rs, ok)
              channels == IF state_shared THEN [rs EXCEPT !.outlines = res.popped] ELSE rs
              merged == ApplyReport(channels, res.update)
          IN IF res.raised
             THEN /\ rpc' = "raised"
                  /\ rs' = channels
             ELSE /\ rs' = merged
                  /\ rpc' = agents_should_continue(merged)
    /\ iters' = [iters EXCEPT !.synthesize = @ + 1, !.review = @ + 1]
    /\ UNCHANGED <<variant, state_shared>>
    /\ UNCHANGED notReport

AgentsRecursionError ==
    /\ pipeline = "report"
    /\ variant = "agents"
    /\ rpc \in {"retrieve", "generate_section"}
    /\ Supersteps >= MaxSupersteps
    /\ rpc' = "raised"
    /\ UNCHANGED <<variant, rs, iters, state_shared>>
    /\ UNCHANGED notReport

NextReportAgents ==
    \/ AgentsImproveQuery
    \/ AgentsInitialRetrieval
    \/ AgentsGenerateOutline
    \/ AgentsRetrieve
    \/ AgentsGenerateSection
    \/ AgentsRecursionError

NextReport ==
    \/ InitialRetrieval
    \/ GenerateOutline
    \/ RetrieveForSection
    \/ SynthesizeSection
    \/ ReviewSection
    \/ CoreRetrieve
    \/ GenerateSection

(***************************************************************************)
(* reduce_docs, the reducer of IndexState.docs.  uuid[i] is the uuid4      *)
(* drawn for the i-th coerced string.                                      *)
(***************************************************************************)
UUIDs == {"u1", "u2"}

StrDoc(c, u) == [t |-> "doc", content |-> c, source |-> "none", id |-> u]

Coerce(item, u) ==
    CASE item.t = "str" -> StrDoc(item.v, u)
      [] item.t = "dict" -> Doc(item.v.content, item.v.source)
      [] OTHER -> item

reduce_docs_str_first(existing, new, uuid) ==
    IF new.t = "str" THEN <<StrDoc(new.v, uuid[1])>>
    ELSE IF new = PyStr("delete") THEN <<>>
    ELSE IF new.t = "list"
    THEN [i \in 1..Len(new.v) |-> Coerce(new.v[i], uuid[i])]
    ELSE IF Truthy(existing) THEN existing.v ELSE <<>>

reduce_docs(existing, new, uuid) ==
    IF new = PyStr("delete") THEN <<>>
    ELSE IF new.t = "str" THEN <<StrDoc(new.v, uuid[1])>>
    ELSE IF new.t = "list"
    THEN [i \in 1..Len(new.v) |-> Coerce(new.v[i], uuid[i])]
    ELSE IF Truthy(existing) THEN existing.v ELSE <<>>

\* Inputs of the reducer: what a docs field can hold and what can be assigned.
ExistingDocs ==
    {PyNone} \cup
    {PyList(q) : q \in SeqsUpTo({Doc("c1", "a.pdf"), StrDoc("old", "u1")}, MaxExisting)}

NewItems == {PyStr("text"), PyDict([content |-> "c2", source |-> "b.pdf"]), Doc("c3", "c.pdf")}

NewValues ==
    {PyStr("delete"), PyStr("text"), PyNone} \cup
    {PyList(q) : q \in SeqsUpTo(NewItems, MaxNewItems)}

(***************************************************************************)
(* State of one application of the reducer.                                *)
(***************************************************************************)
InitReduce ==
    /\ red_existing \in ExistingDocs
    /\ red_new \in NewValues
    /\ red_out = <<>>
    /\ red_done = FALSE

IdleReduce ==
    /\ red_existing = PyNone
    /\ red_new = PyNone
    /\ red_out = <<>>
    /\ red_done = FALSE

AssignDocs ==
    /\ pipeline = "reduce"
    /\ ~red_done
    /\ \E uuid \in [1..MaxNewItems + 1 -> UUIDs] :
          red_out' = reduce_docs(red_existing, red_new, uuid)
    /\ red_done' = TRUE
    /\ UNCHANGED <<red_existing, red_new>>
    /\ UNCHANGED notReduce

NextReduce == AssignDocs

(***************************************************************************)
(* make_document_batch.                                                    *)
(***************************************************************************)
Min(a, b) == IF a < b THEN a ELSE b

\* The while loop: islice takes the next size items; an empty slice ends it.
RECURSIVE BatchLoop(_, _, _)
BatchLoop(rest, size, batches) ==
    LET batch == SubSeq(rest, 1, Min(size, Len(rest)))
    IN IF batch = <<>> THEN batches
       ELSE BatchLoop(SubSeq(rest, Len(batch) + 1, Len(rest)), size, Append(batches, batch))

RECURSIVE BatchLoopDropShort(_, _, _)
BatchLoopDropShort(rest, size, batches) ==
    IF Len(rest) < size THEN batches
    ELSE BatchLoopDropShort(SubSeq(rest, size + 1, Len(rest)), size,
                            Append(batches, SubSeq(rest, 1, size)))

make_document_batch_drop_short(documents, size) ==
    IF size < 1 THEN [raised |-> TRUE, batches |-> <<>>]
    ELSE IF documents = <<>> THEN [raised |-> FALSE, batches |-> <<>>]
    ELSE [raised |-> FALSE, batches |-> BatchLoopDropShort(documents, size, <<>>)]

make_document_batch(documents, size) ==
    IF size < 1 THEN [raised |-> TRUE, batches |-> <<>>]
    ELSE IF documents = <<>> THEN [raised |-> FALSE, batches |-> <<>>]
    ELSE [raised |-> FALSE, batches |-> BatchLoop(documents, size, <<>>)]

(***************************************************************************)
(* State of one call of make_document_batch.                               *)
(***************************************************************************)
InitBatch ==
    /\ b_size \in 0..MaxBatchSize
    /\ \E n \in 0..MaxChunks :
          /\ n <= b_size * MaxBatches
          /\ b_documents = [i \in 1..n |-> i]
    /\ b_out = [raised |-> FALSE, batches |-> <<>>]
    /\ b_done = FALSE

IdleBatch ==
    /\ b_documents = <<>>
    /\ b_size = 0
    /\ b_out = [raised |-> FALSE, batches |-> <<>>]
    /\ b_done = FALSE

MakeDocumentBatch ==
    /\ pipeline = "batch"
    /\ ~b_done
    /\ b_out' = make_document_batch(b_documents, b_size)
    /\ b_done' = TRUE
    /\ UNCHANGED <<b_documents, b_size>>
    /\ UNCHANGED notBatch

NextBatch == MakeDocumentBatch

(***************************************************************************)
(* The index graph.  A chunk is a Document whose content names the file it *)
(* was split from and its position in that file.                           *)
(***************************************************************************)
FileNames == {"a.pdf", "b.pdf", "c.pdf"}

\* Chunks a file can load to: 0 when the load fails or yields no text.
LoadOutcomes == {0, 1, BatchSize + 1}

Loaders == {"PyMuPDFLoader", "VisionLoader"}

Chunk(f, i, s) == [t |-> "doc", content |-> <<f, i>>, source |-> s, id |-> "none"]

\* path.glob("*.pdf") as a list, here in name order.
FileOrder == <<"a.pdf", "b.pdf", "c.pdf">>

Listing(files) ==
    LET present(f) == f \in files
    IN SelectSeq(FileOrder, present)

Range(q) == {q[i] : i \in 1..Len(q)}

remove_duplicates_keep_all(base, new) == new

remove_duplicates(base, new) ==
    LET base_set == Range(base)
        keep(item) == item \notin base_set
    IN SelectSeq(new, keep)

get_existing_documents(store) ==
    Listing({store[i].source : i \in {j \in 1..Len(store) : store[j].source # "none"}})

\* parse_pdfs without its "ensure metadata" line: every chunk keeps the
\* metadata its loader gave it.
LoadAndSplit_loader_metadata(pdf_file, loader, n) ==
    [i \in 1..n |-> Chunk(pdf_file, i,
                          IF loader = "PyMuPDFLoader" THEN pdf_file ELSE "none")]

\* loader.load() then split_documents then document[0].metadata = {"source": pdf_file}:
\* the first chunk is tagged by parse, the others keep the loader's metadata.
\* PyMuPDFLoader puts the file path under "source" itself; VisionLoader.load
\* builds its Document without metadata.  The VisionLoader branch reads
\* configuration.vision_model, which the Configuration of configuration.py does
\* not declare: on that class the read raises inside the per-file try and the
\* file is skipped, which is the outcome 0 of ParseLoop; n > 0 is the branch on
\* a configuration that carries the field.
LoadAndSplit(pdf_file, loader, n) ==
    [i \in 1..n |-> Chunk(pdf_file, i,
                          IF i = 1 \/ loader = "PyMuPDFLoader" THEN pdf_file ELSE "none")]

RECURSIVE ParseLoop(_, _, _, _)
ParseLoop(pdf_files, loader, outcome, documents) ==
    IF pdf_files = <<>> THEN documents
    ELSE LET pdf_file == Head(pdf_files)
         IN ParseLoop(Tail(pdf_files), loader, outcome,
                      IF outcome[pdf_file] = 0 THEN documents
                      ELSE documents \o LoadAndSplit(pdf_file, loader, outcome[pdf_file]))

\* parse_pdfs that gives up on the whole directory when one file fails to load.
parse_pdfs_abort_on_failure(existing, candidates, loader, outcome) ==
    LET pdf_files == remove_duplicates(existing, candidates)
    IN IF \E i \in 1..Len(pdf_files) : outcome[pdf_files[i]] = 0
       THEN [docs |-> PyList(<<>>)]
       ELSE [docs |-> PyList(ParseLoop(pdf_files, loader, outcome, <<>>))]

parse_pdfs(existing, candidates, loader, outcome) ==
    LET pdf_files == remove_duplicates(existing, candidates)
    IN [docs |-> PyList(ParseLoop(pdf_files, loader, outcome, <<>>))]

should_index_always(docs) == "index_docs"

should_index(docs) == IF docs = <<>> THEN "END" ELSE "index_docs"

\* Configuration.from_runnable_config: the fields found under "configurable",
\* the dataclass defaults for every field that is not there (all of them when
\* the run was given no config).
OLLAMA_LOCALHOST == "http://127.0.0.1:11434/"
OLLAMA_CLIENT == "http://127.0.0.1:6780/"

Configs == {PyNone, PyDict([ollama_host |-> OLLAMA_CLIENT])}

from_runnable_config(cfg) ==
    [t |-> "Configuration",
     ollama_host |-> IF cfg.t = "dict" THEN cfg.v.ollama_host ELSE OLLAMA_LOCALHOST,
     embedding_model |-> "nomic-embed-text"]

\* "not configuration": a Configuration instance is always true.
NotConfiguration(configuration) == configuration.t # "Configuration"

\* The loader parse_pdfs builds for a file.
LoaderFor(configuration) ==
    IF configuration.ollama_host # OLLAMA_LOCALHOST THEN "VisionLoader" ELSE "PyMuPDFLoader"

\* collection.delete(where={"source": doc_source}) for each source of docs.
delete_documents_first_only(store, docs) ==
    LET sources == IF docs.t = "str" THEN {docs.v}
                   ELSE IF docs.v = <<>> THEN {} ELSE {Head(docs.v)}
        keep(d) == d.source \notin sources
    IN SelectSeq(store, keep)

delete_documents(store, docs) ==
    LET sources == IF docs.t = "str" THEN {docs.v} ELSE Range(docs.v)
        keep(d) == d.source \notin sources
    IN SelectSeq(store, keep)

DeleteArgs ==
    {PyStr(f) : f \in FileNames} \cup {PyList(<<"a.pdf", "b.pdf">>), PyList(<<>>)}

RECURSIVE Flatten(_)
Flatten(batches) ==
    IF batches = <<>> THEN <<>> ELSE Head(batches) \o Flatten(Tail(batches))

(***************************************************************************)
(* State of the ingestion pipeline.                                        *)
(*   collection the documents of the vector store, in insertion order      *)
(*   dir        the pdf files of the input directory of the current run    *)
(*   use_loader the loader the configuration selects                       *)
(*   ipc        the node about to run ("raised" after invoke raised)       *)
(*   ix_docs    IndexState.docs                                            *)
(*   seen       the existing sources parse read in the current run         *)
(*   runs       ingestion runs that may still be started                   *)
(*   config     the config the graph is invoked with (None when the caller *)
(*              passes none, as IndexAgent.invoke does)                    *)
(*   failed_batch  the batch whose add_documents failed in the current run *)
(*              (0 when none did)                                          *)
(***************************************************************************)
InitIndex ==
    /\ collection = <<>>
    /\ dir = {}
    /\ config \in Configs
    /\ use_loader = LoaderFor(from_runnable_config(config))
    /\ ipc = "idle"
    /\ ix_docs = <<>>
    /\ seen = <<>>
    /\ runs = MaxRuns
    /\ failed_batch = 0

IdleIndex ==
    /\ InitIndex
    /\ config = PyNone

\* IndexAgent.invoke on a directory holding the files d.
StartIndexRun(d) ==
    /\ pipeline = "index"
    /\ ipc \in {"idle", "END", "raised"}
    /\ runs > 0
    /\ runs' = runs - 1
    /\ dir' = d
    /\ ix_docs' = <<>>
    /\ seen' = <<>>
    /\ ipc' = "parse_pdfs"
    /\ failed_batch' = 0
    /\ UNCHANGED <<collection, use_loader, config>>
    /\ UNCHANGED notIndex

ParsePdfs ==
    /\ pipeline = "index"
    /\ ipc = "parse_pdfs"
    /\ \E outcome \in [dir -> LoadOutcomes] :
          LET existing == get_existing_documents(collection)
              upd == parse_pdfs(existing, Listing(dir), use_loader, outcome)
              merged == reduce_docs(PyList(ix_docs), upd.docs, [i \in 1..1 |-> "u1"])
          IN /\ ix_docs' = merged
             /\ seen' = existing
             /\ ipc' = should_index(merged)
    /\ UNCHANGED <<collection, dir, use_loader, runs, config, failed_batch>>
    /\ UNCHANGED notIndex

\* index_docs imports make_batch from src.utils.utils, which defines only
\* make_document_batch and its variants; make_batch is taken to be the
\* documented batching: consecutive batches of at most size items.
make_batch(list, size) == make_document_batch(list, size).batches

\* index_docs on a run that logs a failed batch and goes on to the next one.
IndexDocs_skip_failed_batch ==
    /\ pipeline = "index"
    /\ ipc = "index_docs"
    /\ LET documents_batch == make_batch(ix_docs, BatchSize)
       IN \E fails \in 0..Len(documents_batch) :
             /\ failed_batch' = fails
             /\ collection' = collection \o
                    Flatten([i \in 1..Len(documents_batch) |->
                                IF i = fails THEN <<>> ELSE documents_batch[i]])
             /\ ix_docs' = reduce_docs(PyList(ix_docs), PyStr("delete"), <<>>)
             /\ ipc' = "END"
    /\ UNCHANGED <<dir, use_loader, seen, runs, config>>
    /\ UNCHANGED notIndex

\* added is the number of batches add_documents accepted before one failed;
\* all of them when none failed.  "if not configuration" raises before any
\* batch is made.
IndexDocs ==
    /\ pipeline = "index"
    /\ ipc = "index_docs"
    /\ IF NotConfiguration(from_runnable_config(config))
       THEN /\ ipc' = "raised"
            /\ UNCHANGED <<collection, ix_docs, failed_batch>>
       ELSE LET documents_batch == make_batch(ix_docs, BatchSize)
            IN \E added \in 0..Len(documents_batch) :
                  /\ collection' = collection \o Flatten(SubSeq(documents_batch, 1, added))
                  /\ IF added = Len(documents_batch)
                     THEN /\ ix_docs' = reduce_docs(PyList(ix_docs), PyStr("delete"), <<>>)
                          /\ ipc' = "END"
                          /\ failed_batch' = 0
                     ELSE /\ ix_docs' = ix_docs
                          /\ ipc' = "raised"
                          /\ failed_batch' = added + 1
    /\ UNCHANGED <<dir, use_loader, seen, runs, config>>
    /\ UNCHANGED notIndex

NextIndex ==
    \/ \E d \in SUBSET FileNames : StartIndexRun(d)
    \/ ParsePdfs
    \/ IndexDocs

(***************************************************************************)
(* One call of delete_documents on a vector store.                         *)
(*   del_store  the documents of the store                                 *)
(*   del_docs   the argument: a source or a list of sources                *)
(*   del_done   whether the call has returned                              *)
(***************************************************************************)
StoredChunks ==
    UNION {{Chunk(f, i, f), Chunk(f, i, "none")} : f \in {"a.pdf", "b.pdf"}, i \in 1..2}

Stores == SeqsUpTo(StoredChunks, MaxStored)

InitDelete ==
    /\ del_store \in Stores
    /\ del_docs \in DeleteArgs
    /\ del_done = FALSE

IdleDelete ==
    /\ del_store = <<>>
    /\ del_docs = PyList(<<>>)
    /\ del_done = FALSE

DeleteDocuments ==
    /\ pipeline = "delete"
    /\ ~del_done
    /\ del_store' = delete_documents(del_store, del_docs)
    /\ del_done' = TRUE
    /\ UNCHANGED del_docs
    /\ UNCHANGED notDelete

NextDelete == DeleteDocuments

(***************************************************************************)
(* Thread management of the user interface (database.py).  Every call of   *)
(* get_connection opens a new in-memory database: it has no table, and it  *)
(* is not the database the graph's checkpointer was given.                 *)
(*   thread_deleted  the thread ids delete_thread has been called with     *)
(*   delete_raised   whether the last delete_thread raised                 *)
(***************************************************************************)
get_connection == [tables |-> {}]

IdleThreads ==
    /\ thread_deleted = {}
    /\ delete_raised = FALSE

\* delete_thread, called between turns: the first DELETE runs on a connection
\* without a threads table and raises; no row of the checkpointer is touched.
DeleteThread(thread_id) ==
    /\ pipeline = "chat"
    /\ thread_id \notin thread_deleted
    /\ \A r \in Slots : pc[r] \in {"idle", "END"}
    /\ thread_deleted' = thread_deleted \cup {thread_id}
    /\ LET conn == get_connection
       IN delete_raised' = ("threads" \notin conn.tables)
    /\ UNCHANGED chatVars
    /\ UNCHANGED notChat_threads

NextThreads ==
    \/ NextChat
    \/ \E thread_id \in ThreadIds : DeleteThread(thread_id)

(***************************************************************************)
(* The discussion page of main.py.                                         *)
(*   discussions        the discussions dict, which every change saves to  *)
(*                      the discussions file and every script run reloads  *)
(*   current_thread_id  the discussion the page shows (None when none)     *)
(*   checkpoints        per checkpoint thread, the discussion (by its      *)
(*                      creation time) each stored exchange was made in    *)
(*   now                the clock, one tick per creation                   *)
(***************************************************************************)
\* str(n) of a positive count.
Decimal == <<"1", "2", "3", "4", "5", "6">>

DiscussionThreads == Range(Decimal)

DiscussionTitles == {PyNone, PyStr("Plans")}

create_new_discussion(existing, title, created_at) ==
    LET thread_id == Decimal[Cardinality(DOMAIN existing) + 1]
        entry == [title |-> IF title.t = "none" THEN "Discussion " \o thread_id ELSE title.v,
                  created_at |-> created_at,
                  messages |-> <<>>]
    IN [thread_id |-> thread_id,
        discussions |-> [k \in DOMAIN existing \cup {thread_id} |->
                            IF k = thread_id THEN entry ELSE existing[k]]]

NoDiscussions == [k \in {} |-> 0]

IdleDiscussions ==
    /\ discussions = NoDiscussions
    /\ current_thread_id = "None"
    /\ checkpoints = [t \in DiscussionThreads |-> <<>>]
    /\ now = 0

\* "Create Discussion": create_new_discussion, then the page shows it.
CreateDiscussion(title) ==
    /\ pipeline = "discussions"
    /\ now < MaxCreations
    /\ LET created == create_new_discussion(discussions, title, now + 1)
       IN /\ discussions' = created.discussions
          /\ current_thread_id' = created.thread_id
    /\ now' = now + 1
    /\ UNCHANGED checkpoints
    /\ UNCHANGED notDiscussions

\* A discussion picked in the selector.
SelectDiscussion(thread_id) ==
    /\ pipeline = "discussions"
    /\ thread_id \in DOMAIN discussions
    /\ current_thread_id # thread_id
    /\ current_thread_id' = thread_id
    /\ UNCHANGED <<discussions, checkpoints, now>>
    /\ UNCHANGED notDiscussions

\* The delete button: the entry goes, the checkpoint thread stays.
DeleteDiscussion ==
    /\ pipeline = "discussions"
    /\ current_thread_id # "None"
    /\ current_thread_id \in DOMAIN discussions
    /\ discussions' = [k \in DOMAIN discussions \ {current_thread_id} |-> discussions[k]]
    /\ current_thread_id' = "None"
    /\ UNCHANGED <<checkpoints, now>>
    /\ UNCHANGED notDiscussions

\* A prompt sent in the shown discussion: stream_response runs the graph on
\* the checkpoint thread named by the discussion's id.
StreamResponse ==
    /\ pipeline = "discussions"
    /\ current_thread_id \in DOMAIN discussions
    /\ Len(Flatten([n \in 1..Len(Decimal) |-> checkpoints[Decimal[n]]])) < MaxPrompts
    /\ checkpoints' = [checkpoints EXCEPT ![current_thread_id] =
                          Append(@, discussions[current_thread_id].created_at)]
    /\ UNCHANGED <<discussions, current_thread_id, now>>
    /\ UNCHANGED notDiscussions

NextDiscussions ==
    \/ \E title \in DiscussionTitles : CreateDiscussion(title)
    \/ \E thread_id \in DiscussionThreads : SelectDiscussion(thread_id)
    \/ DeleteDiscussion
    \/ StreamResponse

InitDiscussions ==
    /\ pipeline = "discussions"
    /\ InitChat
    /\ InitReport
    /\ variant = "graphs"
    /\ IdleReduce
    /\ IdleBatch
    /\ IdleIndex
    /\ IdleDelete
    /\ IdleThreads
    /\ IdleStream
    /\ IdleDiscussions

SpecDiscussions == InitDiscussions /\ [][NextDiscussions]_vars

(***************************************************************************)

(* The program: one of the pipelines is run.                               *)
(***************************************************************************)
Init ==
    /\ pipeline \in {"chat", "report", "reduce", "batch", "index", "delete"}
    /\ InitChat
    /\ InitReport
    /\ pipeline # "report" => variant = "graphs"
    /\ IF pipeline = "reduce" THEN InitReduce ELSE IdleReduce
    /\ IF pipeline = "batch" THEN InitBatch ELSE IdleBatch
    /\ IF pipeline = "index" THEN InitIndex ELSE IdleIndex
    /\ IF pipeline = "delete" THEN InitDelete ELSE IdleDelete
    /\ IdleThreads
    /\ IdleDiscussions
    /\ IdleStream

Next ==
    \/ NextChat
    \/ NextReport
    \/ NextReduce
    \/ NextBatch
    \/ NextIndex
    \/ NextDelete

Spec == Init /\ [][Next]_vars

\* Each pipeline on its own.
InitChatOnly == Init /\ pipeline = "chat"

SpecChat == InitChatOnly /\ [][NextChat]_vars

InitReportOnly == Init /\ pipeline = "report"

SpecReport == InitReportOnly /\ [][NextReport]_vars

InitReduceOnly == Init /\ pipeline = "reduce"

SpecReduce == InitReduceOnly /\ [][NextReduce]_vars

InitBatchOnly == Init /\ pipeline = "batch"

SpecBatch == InitBatchOnly /\ [][NextBatch]_vars

InitIndexOnly == Init /\ pipeline = "index"

SpecIndex == InitIndexOnly /\ [][NextIndex]_vars

InitDeleteOnly == Init /\ pipeline = "delete"

SpecDelete == InitDeleteOnly /\ [][NextDelete]_vars

InitReportAgentsOnly ==
    /\ pipeline = "report"
    /\ InitChat
    /\ InitReportAgents
    /\ IdleReduce
    /\ IdleBatch
    /\ IdleIndex
    /\ IdleDelete
    /\ IdleThreads
    /\ IdleDiscussions
    /\ IdleStream

SpecReportAgents == InitReportAgentsOnly /\ [][NextReportAgents]_vars

\* A report run keeps going until the graph reaches END: every node call
\* returns or raises, and the executor then runs the next node.
FairSpecReport == SpecReport /\ WF_vars(NextReport)

\* Conversational turns and report runs under the same scheduling: a turn
\* that has started runs its nodes to END (whether another turn is started
\* is up to the caller).
ChatNodes ==
    \E r \in SeqSlots :
        RephraseQuery(r) \/ Retrieve(r) \/ Respond(r) \/ SummarizeConversation(r)

\* The checkpoint of a thread on which two turns were answered one after the
\* other.
TwoTurnHistory ==
    [messages |-> <<HumanMessage(1, "What is X?"), AIMessage(2, AnswerText),
                    HumanMessage(3, "What is X?"), AIMessage(4, AnswerText)>>,
     query |-> "", retrieved_docs |-> PyList(<<>>), summary |-> ""]

\* The checkpoint of a thread on which five turns were answered one after the
\* other, the third of them summarized.
FiveTurnHistory ==
    [messages |-> [i \in 1..10 |-> IF i % 2 = 1 THEN HumanMessage(i, "What is X?")
                                   ELSE AIMessage(i, AnswerText)],
     query |-> "", retrieved_docs |-> PyList(<<>>), summary |-> "summary A"]

\* An agent whose first run has completed the turns of saved on thread 1 (a
\* new agent when saved is the empty state).
InitChatSaved(saved, turns) ==
        /\ cp = [t \in Threads |-> IF t = "1" THEN saved ELSE EmptyRetrievalState]
        /\ pc = [r \in Slots |-> IF r = "r1" /\ saved # EmptyRetrievalState
                                  THEN "END" ELSE "idle"]
        /\ tid = [r \in Slots |-> "1"]
        /\ st = [r \in Slots |-> IF r = "r1" THEN saved ELSE EmptyRetrievalState]
        /\ trace = [r \in Slots |-> IF r = "r1" /\ saved # EmptyRetrievalState
                                     THEN <<"rephrase_query", "retrieve", "respond">>
                                     ELSE <<>>]
        /\ done = [t \in Threads |-> IF t = "1" THEN Len(saved.messages) \div 2 ELSE 0]
        /\ nextId = Len(saved.messages) + 1
        /\ budget = turns

\* An agent that is new, or one whose first run has completed two turns on
\* thread 1.
InitChatHistory(turns) ==
    \E saved \in {EmptyRetrievalState, TwoTurnHistory} : InitChatSaved(saved, turns)

InitChatConcurrent ==
    /\ pipeline = "chat"
    /\ InitChatHistory(MaxConcurrentTurns)
    /\ InitReport
    /\ variant = "graphs"
    /\ IdleReduce
    /\ IdleBatch
    /\ IdleIndex
    /\ IdleDelete
    /\ IdleThreads
    /\ IdleDiscussions
    /\ IdleStream

SpecChatConcurrent == InitChatConcurrent /\ [][NextChatConcurrent]_vars

InitThreads ==
    /\ pipeline = "chat"
    /\ InitChatHistory(MaxThreadTurns)
    /\ InitReport
    /\ variant = "graphs"
    /\ IdleReduce
    /\ IdleBatch
    /\ IdleIndex
    /\ IdleDelete
    /\ IdleThreads
    /\ IdleDiscussions
    /\ IdleStream

SpecThreads == InitThreads /\ [][NextThreads]_vars

\* One agent whose turns are consumed through stream().
InitStream ==
    /\ pipeline = "chat"
    /\ InitChatHistory(MaxStreamTurns)
    /\ InitReport
    /\ variant = "graphs"
    /\ IdleReduce
    /\ IdleBatch
    /\ IdleIndex
    /\ IdleDelete
    /\ IdleThreads
    /\ IdleDiscussions
    /\ stream_mode = "messages"
    /\ events = [r \in Slots |-> <<>>]

SpecStream == InitStream /\ [][NextChat]_vars

\* An agent one turn before its first or its second summarization.
InitSummaries ==
    /\ pipeline = "chat"
    /\ \E saved \in {TwoTurnHistory, FiveTurnHistory} : InitChatSaved(saved, MaxSummaryTurns)
    /\ InitReport
    /\ variant = "graphs"
    /\ IdleReduce
    /\ IdleBatch
    /\ IdleIndex
    /\ IdleDelete
    /\ IdleThreads
    /\ IdleDiscussions
    /\ IdleStream

SpecSummaries == InitSummaries /\ [][NextChat]_vars

InitTurns ==
    /\ pipeline \in {"chat", "report"}
    /\ InitChatTurns(MaxLiveTurns)
    /\ InitReport
    /\ pipeline # "report" => variant = "graphs"
    /\ IdleReduce
    /\ IdleBatch
    /\ IdleIndex
    /\ IdleDelete
    /\ IdleThreads
    /\ IdleDiscussions
    /\ IdleStream

NextTurns ==
    \/ NextChat
    \/ NextReport

FairSpecTurns ==
    InitTurns /\ [][NextTurns]_vars /\ WF_vars(ChatNodes) /\ WF_vars(NextReport)

(***************************************************************************)
(* Properties.                                                             *)
(***************************************************************************)
Max(a, b) == IF a > b THEN a ELSE b

NoTurnInProgress(t) == \A r \in Slots : pc[r] \in {"idle", "END"} \/ tid[r] # t

\* C1: after N completed turns on a thread, its messages are exactly N human
\* and N assistant messages, alternating human, assistant.
C1_TurnsAlternate ==
    \A t \in Threads :
        NoTurnInProgress(t) =>
            LET m == cp[t].messages
            IN /\ Len(m) = 2 * done[t]
               /\ \A i \in 1..Len(m) : m[i].role = IF i % 2 = 1 THEN "human" ELSE "ai"

C1_Witness ==
    /\ NoTurnInProgress("1")
    /\ done["1"] = 3
    /\ cp["1"].messages[4].content = Apology
    /\ cp["1"].messages[6].content = AnswerText

\* C2: once respond has returned, summarize_conversation runs in the turn
\* iff the number of messages is a multiple of 6; otherwise the turn halts.
C2_SummarizeIffMultipleOf6 ==
    \A r \in Slots :
        /\ pc[r] = "summarize_conversation" =>
              /\ Len(st[r].messages) % 6 = 0
              /\ Last(trace[r]) = "respond"
        /\ pc[r] = "END" =>
              /\ "respond" \in Range(trace[r])
              /\ ("summarize_conversation" \in Range(trace[r]))
                    <=> (Len(st[r].messages) % 6 = 0)

C2_Witness ==
    /\ pc["r1"] = "END"
    /\ Last(trace["r1"]) = "summarize_conversation"
    /\ Len(st["r1"].messages) = 6

LoopRanTimes(n) ==
    /\ iters.retrieve = n
    /\ iters.synthesize = n
    /\ iters.review = n

C4_Original ==
    [][/\ rpc = "generate_outline" => rs'.current_section_index = 0
       /\ rpc = "review_section" =>
             rs'.current_section_index = rs.current_section_index + 1]_vars

\* C4 as amended: generate_outline sets current_section_index to 0; an execution
\* of review_section entered with current_section_index < len(outlines)
\* increases it by exactly 1, whether or not a model call failed; entered with
\* no outline (or an index out of range) it leaves the index unchanged.
C4_IndexAdvancesByOne ==
    [][/\ rpc = "generate_outline" => rs'.current_section_index = 0
       /\ rpc = "review_section" =>
             rs'.current_section_index =
                IF rs.current_section_index < Len(rs.outlines)
                THEN rs.current_section_index + 1
                ELSE rs.current_section_index]_vars

C4_Witness ==
    /\ variant = "graphs"
    /\ rs.current_section_index = 2
    /\ rs.raw_section_content = "Error synthesizing section"
    /\ rs.report[2].content = "Error reviewing section"

\* C5: in every state of a report run, 0 <= current_section_index <= len(outlines).
C5_IndexWithinOutline ==
    /\ 0 <= rs.current_section_index
    /\ rs.current_section_index <= Len(rs.outlines)

C5_Witness ==
    /\ variant = "core"
    /\ Len(rs.outlines) = 2
    /\ rs.current_section_index = 2
    /\ rs.report[2].title = "Error"

ChatDocsCleared ==
    \A r \in Slots :
        pc[r] \in {"summarize_conversation", "END"} =>
            /\ st[r].retrieved_docs = PyList(<<>>)
            /\ cp[tid[r]].retrieved_docs = PyList(<<>>)

\* C6 as stated: after the consuming node has returned (respond in a turn,
\* synthesize_section in a report run), retrieved_docs is empty.
C6_Original ==
    /\ ChatDocsCleared
    /\ (variant = "graphs" /\ rpc \in {"review_section", "END"}) =>
          rs.retrieved_docs = <<>>

\* C6 as amended: in the conversational pipeline retrieved_docs is empty in
\* every state after respond has returned; in the report pipeline neither
\* synthesize_section nor review_section changes retrieved_docs.
C6_DocsClearedByRespondOnly ==
    /\ []ChatDocsCleared
    /\ [][(variant = "graphs" /\ rpc \in {"synthesize_section", "review_section"}) =>
             rs'.retrieved_docs = rs.retrieved_docs]_vars

C6_Witness ==
    /\ pc["r1"] = "END"
    /\ trace["r1"] = <<"rephrase_query", "retrieve", "respond">>
    /\ st["r1"].retrieved_docs = PyList(<<>>)
    /\ done["1"] = 2

\* C7: assigning "delete" through reduce_docs yields an empty collection,
\* whatever the field held.
C7_DeleteClears ==
    (red_done /\ red_new = PyStr("delete")) => red_out = <<>>

C7_Witness ==
    /\ red_done
    /\ red_new = PyStr("delete")
    /\ red_existing.t = "list"
    /\ Len(red_existing.v) = 2

\* C8: assigning a list through reduce_docs yields the existing documents
\* followed by the coerced new items.
C8_ListExtends ==
    (red_done /\ red_new.t = "list" /\ red_existing.t = "list") =>
        /\ Len(red_out) = Len(red_existing.v) + Len(red_new.v)
        /\ SubSeq(red_out, 1, Len(red_existing.v)) = red_existing.v

\* C9: no chunk returned by parse comes from a file whose source was in the
\* store's existing-source list; with {a, b} existing and {a, b, c} in the
\* directory the chunks come only from c.
C9_ParseSkipsExisting ==
    /\ \A i \in 1..Len(ix_docs) :
          /\ ix_docs[i].content[1] \notin Range(seen)
          /\ ix_docs[i].content[1] \in dir
    /\ (Range(seen) = {"a.pdf", "b.pdf"} /\ dir = {"a.pdf", "b.pdf", "c.pdf"}) =>
          \A i \in 1..Len(ix_docs) : ix_docs[i].content[1] = "c.pdf"

C9_Witness ==
    /\ ipc = "index_docs"
    /\ Range(seen) = {"a.pdf", "b.pdf"}
    /\ dir = {"a.pdf", "b.pdf", "c.pdf"}
    /\ ix_docs # <<>>

\* C10: batching n chunks with size s >= 1 gives consecutive batches whose
\* concatenation is the input; every batch but the last has exactly s items,
\* the last has 1..s; 97 chunks at size 20 give sizes 20, 20, 20, 20, 17; an
\* empty list gives no batch.
C10_BatchesPartitionInput ==
    (b_done /\ b_size >= 1) =>
        LET batches == b_out.batches
            k == Len(batches)
        IN /\ ~b_out.raised
           /\ Flatten(batches) = b_documents
           /\ \A i \in 1..k - 1 : Len(batches[i]) = b_size
           /\ k > 0 => Len(batches[k]) \in 1..b_size
           /\ b_documents = <<>> => batches = <<>>
           /\ (Len(b_documents) = 97 /\ b_size = 20) =>
                 [i \in 1..k |-> Len(batches[i])] = <<20, 20, 20, 20, 17>>

C10_Witness ==
    /\ b_done
    /\ Len(b_documents) = 97
    /\ b_size = 20
    /\ Len(b_out.batches) = 5

Sources(store) == {store[i].source : i \in 1..Len(store)} \ {"none"}

\* C11: when the directory holds no pdf file, or every pdf file of it already
\* has its source in the vector store, the step out of parse_pdfs goes to END,
\* with nothing to index and nothing added to the store (index_docs only
\* runs from "index_docs").
C11_NothingNewSkipsIndexing ==
    [][(ipc = "parse_pdfs" /\ dir \subseteq Sources(collection)) =>
          /\ ipc' = "END"
          /\ ix_docs' = <<>>
          /\ collection' = collection]_vars

C11_Witness ==
    /\ ipc = "END"
    /\ dir = {"a.pdf", "b.pdf"}
    /\ Range(seen) = {"a.pdf", "b.pdf"}
    /\ Len(collection) = 2
    /\ runs = MaxRuns - 2

\* C12: when add_documents fails on a batch, index_docs raises out of the
\* run: the batches before the failing one are in the store, the failing one
\* and every later one are not, and docs is left as it was.
C12_BatchFailureAborts ==
    [][(ipc = "index_docs" /\ failed_batch' > 0) =>
          /\ ipc' = "raised"
          /\ ix_docs' = ix_docs
          /\ collection' = collection \o SubSeq(ix_docs, 1, (failed_batch' - 1) * BatchSize)]_vars

C12_Witness ==
    /\ ipc = "raised"
    /\ failed_batch = 2
    /\ Len(ix_docs) = BatchSize + 2
    /\ Len(collection) = BatchSize

\* C13: no file that parse treats as already indexed (its source is in the
\* store) has a chunk that is missing from the store; stated for the chunks
\* an aborted run still holds in docs.
C13_NoSilentPartialIndexing ==
    ipc = "raised" =>
        \A i \in 1..Len(ix_docs) :
            ix_docs[i].content[1] \in Range(get_existing_documents(collection)) =>
                \E j \in 1..Len(collection) : collection[j] = ix_docs[i]

\* C14: after delete_documents(x) has returned, get_existing_documents()
\* contains neither x nor, for a list x, any source of the list.
C14_DeletedSourcesNotListed ==
    del_done =>
        LET sources == IF del_docs.t = "str" THEN {del_docs.v} ELSE Range(del_docs.v)
        IN sources \cap Range(get_existing_documents(del_store)) = {}

C14_Witness ==
    /\ del_done
    /\ del_docs = PyList(<<"a.pdf", "b.pdf">>)
    /\ del_store = <<Chunk("a.pdf", 2, "none")>>

\* C16: a run that was given no configuration aborts before any node has
\* produced state: an ingestion run invoked without config never gets past
\* parse_pdfs, holds no docs and has written nothing to the store.
C16_MissingConfigurationAborts ==
    (pipeline = "index" /\ config = PyNone) =>
        /\ ipc \in {"idle", "parse_pdfs", "raised"}
        /\ ix_docs = <<>>
        /\ collection = <<>>

FallbackOutline ==
    /\ Len(rs.outlines) = 1
    /\ IF variant = "graphs"
       THEN rs.outlines[1] = "Report Section"
       ELSE rs.outlines[1].summary = "Unable to generate outline"

\* C15: when outline generation failed (the stored outline is the fallback
\* outline), the report run reaches END and its report has exactly one
\* section, titled with the fallback title or "Error".
C15_FallbackReportHasOneSection ==
    /\ FallbackOutline ~> (rpc = "END")
    /\ []((FallbackOutline /\ rpc = "END") =>
             /\ Len(rs.report) = 1
             /\ rs.report[1].title \in {"Report Section", "Error"})

C15_Witness ==
    /\ variant = "graphs"
    /\ rpc = "END"
    /\ rs.outlines = <<"Report Section">>
    /\ Len(rs.report) = 1
    /\ rs.report[1].content = "Error reviewing section"

TurnAnswered(r) ==
    /\ pc[r] = "END"
    /\ cp[tid[r]].messages # <<>>
    /\ Last(cp[tid[r]].messages).role = "ai"
    /\ Last(cp[tid[r]].messages).id >= nextId - 1

C18_SaveOverwritesThreadState ==
    [][\A r \in Slots : pc'[r] # pc[r] => cp'[tid'[r]] = st'[r]]_vars

C18_Witness ==
    /\ tid["r1"] = "1"
    /\ tid["r2"] = "1"
    /\ pc["r1"] = "END"
    /\ pc["r2"] = "END"
    /\ done["1"] = 2
    /\ Len(st["r1"].messages) = 2
    /\ Len(st["r2"].messages) = 3
    /\ st["r2"].messages[1] = st["r1"].messages[1]
    /\ cp["1"] = st["r1"]

\* C19: a step changes the persisted state (messages, summary, query,
\* retrieved_docs) of a thread only when it is a step of a turn running on
\* that thread; the persisted state of every other thread is left unchanged.
C19_ThreadsIsolated ==
    [][\A t \in Threads :
          cp'[t] # cp[t] => \E r \in Slots : tid'[r] = t /\ pc'[r] # pc[r]]_vars

C19_Witness ==
    /\ tid["r1"] = "1"
    /\ tid["r2"] = "2"
    /\ pc["r1"] = "END"
    /\ pc["r2"] = "respond"
    /\ Len(cp["1"].messages) = 2
    /\ Len(cp["2"].messages) = 1
    /\ cp["2"].messages[1].id < cp["1"].messages[1].id
    /\ cp["1"].query # cp["2"].query

IsPrefix(s, t) == Len(s) <= Len(t) /\ SubSeq(t, 1, Len(s)) = s

\* C20: a turn started on a thread id starts from exactly the state saved for
\* that thread plus the new human message, and what get_messages returns for a
\* thread id only ever grows at its end: it is the checkpoint streaming writes,
\* holding the messages of all completed turns of the thread in order.
C20_StatePersistsAcrossTurns ==
    [][/\ \A r \in SeqSlots, thread_id \in ThreadIds :
            (pc[r] # "rephrase_query" /\ pc'[r] = "rephrase_query"
                /\ tid'[r] = str(thread_id)) =>
               /\ Len(st'[r].messages) = Len(get_messages(thread_id)) + 1
               /\ IsPrefix(get_messages(thread_id), st'[r].messages)
               /\ Last(st'[r].messages).role = "human"
               /\ st'[r].summary = cp[str(thread_id)].summary
               /\ st'[r].query = cp[str(thread_id)].query
               /\ st'[r].retrieved_docs = cp[str(thread_id)].retrieved_docs
       /\ \A thread_id \in ThreadIds :
            /\ IsPrefix(get_messages(thread_id), get_messages(thread_id)')
            /\ Len(get_messages(thread_id)') >= 2 * done'[str(thread_id)]]_vars

C20_Witness ==
    /\ pc["r1"] = "rephrase_query"
    /\ tid["r1"] = "1"
    /\ done["1"] = 1
    /\ done["2"] = 1
    /\ Len(get_messages(1)) = 3
    /\ Len(get_messages(2)) = 2
    /\ get_messages(1)[1].id < get_messages(2)[1].id
    /\ get_messages(2)[2].id < get_messages(1)[3].id

\* C21: once delete_thread(id) has been called, nothing is left of thread id
\* in the checkpointer: loading id through the conversational graph gives no
\* messages.
C21_DeletedThreadLoadsEmpty ==
    [][\A thread_id \in ThreadIds :
          (thread_id \in thread_deleted' /\ thread_id \notin thread_deleted) =>
              get_messages(thread_id)' = <<>>]_vars

\* C22: the first turn on a fresh thread ends with exactly one assistant
\* message appended after the human message and with an empty summary; and
\* the summary of a thread changes only in the summarize step of a turn whose
\* message count after respond is a multiple of 6, so every other turn leaves
\* it unchanged.
C22_SummaryUnchangedOffMultiples ==
    [][/\ \A r \in SeqSlots :
            (pc[r] = "respond" /\ done[tid[r]] = 0) =>
               /\ Len(st'[r].messages) = 2
               /\ st'[r].messages[1].role = "human"
               /\ st'[r].messages[2].role = "ai"
               /\ pc'[r] = "END"
               /\ cp'[tid[r]].summary = ""
       /\ \A r \in SeqSlots :
            (pc[r] = "respond" /\ Len(st'[r].messages) % SummarizeEvery # 0) =>
               /\ pc'[r] = "END"
               /\ Len(st'[r].messages) = Len(st[r].messages) + 1
               /\ cp'[tid[r]].summary = cp[tid[r]].summary
       /\ \A t \in Threads :
            cp'[t].summary # cp[t].summary =>
               \E r \in SeqSlots :
                  /\ tid[r] = t
                  /\ pc[r] = "summarize_conversation"
                  /\ Len(st[r].messages) % SummarizeEvery = 0]_vars

C22_Witness ==
    /\ pc["r1"] = "END"
    /\ tid["r1"] = "1"
    /\ trace["r1"] = <<"rephrase_query", "retrieve", "respond">>
    /\ Len(cp["1"].messages) = 8
    /\ cp["1"].summary = "summary A"

ChunksOf(docs, pdf_file) ==
    LET from_file(d) == d.content[1] = pdf_file
    IN SelectSeq(docs, from_file)

\* C27: a candidate file whose load fails contributes no chunk to what parse
\* returns, every other new file contributes all its chunks, and the run goes
\* on to index_docs or END instead of raising.
C27_FailedFileIsSkipped ==
    [][ipc = "parse_pdfs" =>
          /\ ipc' \in {"index_docs", "END"}
          /\ \A outcome \in [dir -> LoadOutcomes] :
                LET existing == get_existing_documents(collection)
                    docs == parse_pdfs(existing, Listing(dir), use_loader, outcome).docs.v
                IN \A pdf_file \in dir :
                      Len(ChunksOf(docs, pdf_file)) =
                         IF pdf_file \in Range(existing) THEN 0 ELSE outcome[pdf_file]
          /\ \E outcome \in [dir -> LoadOutcomes] :
                ix_docs' = parse_pdfs(get_existing_documents(collection), Listing(dir),
                                      use_loader, outcome).docs.v]_vars

C27_Witness ==
    /\ ipc = "index_docs"
    /\ dir = {"a.pdf", "b.pdf", "c.pdf"}
    /\ collection = <<>>
    /\ ChunksOf(ix_docs, "a.pdf") # <<>>
    /\ ChunksOf(ix_docs, "b.pdf") = <<>>
    /\ ChunksOf(ix_docs, "c.pdf") # <<>>

\* C28: every chunk parse has produced is tagged with its source: its source
\* metadata is the file it was split from, for every chunk of a file and with
\* either loader.
C28_EveryChunkTagged ==
    \A i \in 1..Len(ix_docs) : ix_docs[i].source = ix_docs[i].content[1]

NodeOrder == <<"rephrase_query", "retrieve", "respond", "summarize_conversation">>

EndsOf(evs) ==
    LET is_end(e) == e.kind = "end"
        ends == SelectSeq(evs, is_end)
    IN [i \in 1..Len(ends) |-> ends[i].node]

\* C29: in a streamed turn the nodes run one at a time in the order rephrase,
\* retrieve, respond, then summarize or END, every chunk being produced
\* between the return of the node before and the return of its own node; and
\* every delta the caller receives is a chunk of respond, produced after
\* rephrase and retrieve have returned.
C29_NodesInOrderOnlyRespondStreams ==
    \A r \in SeqSlots :
        LET evs == events[r]
        IN /\ trace[r] = SubSeq(NodeOrder, 1, Len(trace[r]))
           /\ pc[r] \notin {"idle", "END"} => pc[r] = NodeOrder[Len(trace[r]) + 1]
           /\ pc[r] = "END" => Len(trace[r]) \in {3, 4}
           /\ (pc[r] # "idle" /\ stream_mode = "messages" /\ budget < MaxStreamTurns)
                 => EndsOf(evs) = trace[r]
           /\ \A i \in 1..Len(evs) :
                 evs[i].kind = "chunk" =>
                    /\ \E k \in i + 1..Len(evs) : evs[k] = EndEvent(evs[i].node)
                    /\ \A j \in 1..i - 1 : evs[j] # EndEvent(evs[i].node)
           /\ \A i \in Delivered(evs) :
                 /\ evs[i].node = "respond"
                 /\ \E j \in 1..i - 1, k \in 1..i - 1 :
                       /\ j < k
                       /\ evs[j] = EndEvent("rephrase_query")
                       /\ evs[k] = EndEvent("retrieve")

C29_Witness ==
    /\ pc["r1"] = "END"
    /\ trace["r1"] = NodeOrder
    /\ Len(events["r1"]) = 8
    /\ events["r1"][1] = ChunkEvent("rephrase_query", "X")
    /\ events["r1"][7] = ChunkEvent("summarize_conversation", "summary A")
    /\ Delivered(events["r1"]) = {4, 5}

\* C30: once rephrase has returned and its update has been merged,
\* retrieved_docs is an empty list, whether or not documents were left over
\* from an earlier turn.
C30_RephraseClearsDocs ==
    \A r \in Slots :
        (pc[r] = "retrieve" /\ trace[r] = <<"rephrase_query">>) =>
            st[r].retrieved_docs = PyList(<<>>)

\* C31: within a report run the report is append-only: every step leaves it
\* as it is or adds sections at its end, so a section once present is never
\* modified, reordered or removed.
C31_ReportAppendOnly ==
    [][/\ IsPrefix(rs.report, rs.report')
       /\ \A i \in 1..Len(rs.report) : rs.report'[i] = rs.report[i]
       /\ Len(rs.report') \in {Len(rs.report), Len(rs.report) + 1}]_vars

C31_Witness ==
    /\ rpc = "END"
    /\ Len(rs.report) = 2
    /\ rs.report[1].title = "A"
    /\ rs.report[1].content = "Error reviewing section"
    /\ rs.report[2].title = "B"

\* C32: in every state of a report run after generate_outline the report has
\* as many sections as current_section_index says, and a step appends one
\* section exactly when it advances the index by one.
C32_SectionsEqualIndex ==
    [][/\ rpc' \notin {"initial_retrieval", "generate_outline"} =>
             Len(rs.report') = rs.current_section_index'
       /\ rpc \notin {"initial_retrieval", "generate_outline"} =>
             /\ rs.current_section_index' - rs.current_section_index \in {0, 1}
             /\ Len(rs.report') - Len(rs.report) =
                   rs.current_section_index' - rs.current_section_index]_vars

C32_Witness ==
    /\ variant = "core"
    /\ rpc = "retrieve"
    /\ Len(rs.outlines) = 2
    /\ rs.current_section_index = 1
    /\ Len(rs.report) = 1
    /\ rs.report[1].title = "Error"

\* C33: when a run of the report graph of graphs/report_graph.py halts, the
\* report has one section per outline entry and the title of the i-th section
\* is the i-th entry, whichever model calls failed.
C33_SectionsFollowOutline ==
    (variant = "graphs" /\ rpc = "END") =>
        /\ Len(rs.report) = Len(rs.outlines)
        /\ \A i \in 1..Len(rs.report) : rs.report[i].title = rs.outlines[i]

C33_Witness ==
    /\ variant = "graphs"
    /\ rpc = "END"
    /\ rs.outlines = <<"B", "A">>
    /\ rs.report[1] = [title |-> "B", content |-> "Error reviewing section"]
    /\ rs.report[2] = [title |-> "A", content |-> "polished"]

\* C34: over completed turns on one thread, the k-th summarization runs when
\* the message count reaches 6k and its input is messages 6k-5..6k: every
\* count that is a multiple of 6 is summarized when it is reached, counts grow
\* by one message at a time, and the inputs are consecutive blocks of 6.
C34_SummariesPartitionMessages ==
    [][\A r \in SeqSlots :
          LET n == Len(st[r].messages)
              k == n \div SummarizeEvery
          IN /\ pc[r] = "summarize_conversation" =>
                   /\ n = SummarizeEvery * k
                   /\ k >= 1
                   /\ messages_to_summarize(st[r]) =
                         [i \in 1..SummarizeEvery |->
                             st[r].messages[SummarizeEvery * (k - 1) + i]]
                   /\ st'[r].messages = st[r].messages
                   /\ pc'[r] = "END"
             /\ pc[r] = "respond" =>
                   /\ Len(st'[r].messages) = n + 1
                   /\ (pc'[r] = "summarize_conversation")
                         <=> ((n + 1) % SummarizeEvery = 0)
             /\ (pc[r] \in {"idle", "END"} /\ pc'[r] = "rephrase_query") =>
                   Len(st'[r].messages) = Len(cp[tid'[r]].messages) + 1
             /\ pc[r] \in {"rephrase_query", "retrieve"} =>
                   st'[r].messages = st[r].messages]_vars

C34_Witness ==
    /\ pc["r1"] = "END"
    /\ tid["r1"] = "1"
    /\ trace["r1"] = <<"rephrase_query", "retrieve", "respond", "summarize_conversation">>
    /\ Len(cp["1"].messages) = 12
    /\ cp["1"].summary = "summary B"
    /\ messages_to_summarize(cp["1"])[1].id = 7

RECURSIVE Join(_)
Join(texts) == IF texts = <<>> THEN "" ELSE Head(texts) \o Join(Tail(texts))

\* What the caller of stream() has received: the delivered contents, in order.
DeliveredText(evs) ==
    LET delivered(i) == i \in Delivered(evs)
        positions == SelectSeq([i \in 1..Len(evs) |-> i], delivered)
    IN Join([n \in 1..Len(positions) |-> evs[positions[n]].content])

\* C35: for every streamed turn, the deltas delivered to the caller,
\* concatenated, are the content of the assistant message the turn appended,
\* also when the response model failed after some deltas.
C35_StreamEqualsMessage ==
    \A r \in SeqSlots :
        (stream_mode = "messages" /\ pc[r] = "END" /\ events[r] # <<>>) =>
            DeliveredText(events[r]) = Last(st[r].messages).content

\* C36: ingestion is idempotent.  A run after the first one, on a directory
\* whose every file the store already holds chunks of (what a first run on
\* that directory leaves when nothing failed), goes from parse to END without
\* an index write, and leaves the store as it was, no chunk stored twice.
C36_SecondRunIsNoOp ==
    [][(/\ ipc = "parse_pdfs"
        /\ runs <= MaxRuns - 2
        /\ dir = {collection[i].content[1] : i \in 1..Len(collection)})
          => /\ ipc' = "END"
             /\ ix_docs' = <<>>
             /\ collection' = collection
             /\ Cardinality(Range(collection')) = Len(collection')]_vars

C36_Witness ==
    /\ ipc = "END"
    /\ runs = MaxRuns - 2
    /\ dir = {"a.pdf", "b.pdf", "c.pdf"}
    /\ Range(seen) = dir
    /\ ix_docs = <<>>
    /\ \A pdf_file \in dir : Len(ChunksOf(collection, pdf_file)) \in {1, BatchSize + 1}
    /\ \E pdf_file \in dir : Len(ChunksOf(collection, pdf_file)) = BatchSize + 1
    /\ Cardinality(Range(collection)) = Len(collection)

\* C37: in the report graph whose generate_section pops the outline, the
\* section loop makes one iteration per outline entry and halts: an iteration
\* starts only when an entry is left, a section that is written is the entry
\* the iteration retrieved for, that entry is gone from the outline afterwards,
\* and the run halts exactly when no entry is left.
C37_PopLoopOneIterationPerEntry ==
    [][(variant = "agents" /\ rpc \in {"retrieve", "generate_section"}) =>
          /\ rs.outlines # <<>>
          /\ Supersteps < MaxSupersteps
          /\ rpc = "retrieve" => agents_retrieve_input(rs) # rs.query
          /\ (rpc = "generate_section" /\ rpc' # "raised") =>
                /\ Last(rs'.report).title = Head(rs.outlines).title
                /\ rs'.outlines = Tail(rs.outlines)
                /\ rpc' = IF rs'.outlines = <<>> THEN "END" ELSE "retrieve"]_vars

\* C38: after any creations and deletions, the thread id create_new_discussion
\* returns is not the id of an existing discussion: every existing entry is
\* left as it was, and the checkpoint thread of the new discussion holds no
\* exchange of a discussion that still exists.
C38_NewDiscussionIdIsFresh ==
    [][now' # now =>
          LET thread_id == current_thread_id'
          IN /\ thread_id \notin DOMAIN discussions
             /\ \A k \in DOMAIN discussions :
                   k \in DOMAIN discussions' /\ discussions'[k] = discussions[k]
             /\ \A i \in 1..Len(checkpoints[thread_id]) :
                   \A k \in DOMAIN discussions :
                      checkpoints[thread_id][i] # discussions[k].created_at]_vars
====
